---- MODULE Spec2Model ----
(***************************************************************************)
(* Register-level model of the MSA301/MSA311 accelerometer drivers:        *)
(*   adafruit_msa3xx.py  (classes MSA3XX, MSA301, MSA311)                  *)
(*   adafruit_msa301.py  (the earlier stand-alone class MSA301)            *)
(* The device is a bank of 8-bit registers behind an I2C bus.  Every       *)
(* descriptor access of the drivers is one bus transaction (a read) or a   *)
(* read followed by a write (a read-modify-write of a bit field).          *)
(***************************************************************************)
EXTENDS Integers, Sequences, FiniteSets, TLC

VARIABLES
    driver,         \* which driver class talks to the device
    phase,          \* "Unverified" | "Ready" | "Failed": the driver object
    reg,            \* the device's configuration/status registers, by address
    out,            \* the six output registers OUT_X_L .. OUT_Z_H
    tap_count,      \* MSA3XX._tap_count, the local mirror
    tapConfigured,  \* history: enable_tap_detection was called on this object
    last,           \* the last operation, its arguments and what it returned
    acc             \* an acceleration call in flight (between its two reads)

vars == <<driver, phase, reg, out, tap_count, tapConfigured, last, acc>>

(***************************************************************************)
(* Register addresses                                                      *)
(***************************************************************************)
_REG_PARTID == 1
_REG_MOTIONINT == 9
_REG_RESRANGE == 15
_REG_ODR == 16
_REG_POWERMODE == 17
_REG_INTSET0 == 22
_REG_TAPDUR == 42
_REG_TAPTH == 43

Addrs == {_REG_PARTID, _REG_MOTIONINT, _REG_RESRANGE, _REG_ODR,
          _REG_POWERMODE, _REG_INTSET0, _REG_TAPDUR, _REG_TAPTH}

\* the identity value both __init__ methods compare against (0x13)
PART_ID_EXPECTED == 19

\* _STANDARD_GRAVITY = 9.806, in thousandths
_STANDARD_GRAVITY_MILLI == 9806

(***************************************************************************)
(* The enum-like classes                                                   *)
(***************************************************************************)
Mode == {0, 1, 2}
DataRate == 0..10
BandWidth == {0} \cup (3..10)
Range == 0..3
Resolution == 0..3

Mode_NORMAL == 0
DataRate_RATE_500_HZ == 9
BandWidth_WIDTH_250_HZ == 9
Range_RANGE_4_G == 1
Resolution_RESOLUTION_14_BIT == 0

(***************************************************************************)
(* Bit arithmetic on bytes                                                 *)
(***************************************************************************)
Pow2(n) == 2 ^ n

RECURSIVE BitAnd(_, _)
BitAnd(a, b) ==
    IF a = 0 \/ b = 0 THEN 0
    ELSE (a % 2) * (b % 2) + 2 * BitAnd(a \div 2, b \div 2)

RECURSIVE BitOr(_, _)
BitOr(a, b) ==
    IF a = 0 THEN b
    ELSE IF b = 0 THEN a
    ELSE (IF a % 2 = 1 \/ b % 2 = 1 THEN 1 ELSE 0) + 2 * BitOr(a \div 2, b \div 2)

(***************************************************************************)
(* The bus: the register bank and the number of reads and writes issued    *)
(* since the running operation began.                                      *)
(***************************************************************************)
Bus(r) == [reg |-> r, nr |-> 0, nw |-> 0]

\* ROUnaryStruct.__get__: a one-byte read
BusRead(b) == [b EXCEPT !.nr = @ + 1]

\* RWBits.__get__ / RWBit.__get__: (reg & bit_mask) >> lowest_bit
GetField(r, f) == (r[f.addr] \div Pow2(f.lo)) % Pow2(f.width)

\* the byte RWBits.__set__ writes back: value <<= lowest_bit,
\* reg &= ~bit_mask, reg |= value, and the low byte of that.  Clearing the
\* span is subtracting what the span holds; or-ing in a value that fits the
\* span is adding it, and a wider value is or-ed bit by bit.
NewByte(old, f, v) ==
    LET cleared == old - ((old \div Pow2(f.lo)) % Pow2(f.width)) * Pow2(f.lo)
        shifted == v * Pow2(f.lo)
    IN  (IF v < Pow2(f.width) THEN cleared + shifted
         ELSE BitOr(cleared, shifted)) % 256

\* RWBits.__set__: one read of the register and one write of the new byte
SetField(b, f, v) ==
    [b EXCEPT !.reg[f.addr] = NewByte(@, f, v), !.nr = @ + 1, !.nw = @ + 1]

\* RWBit.__set__ with a boolean
SetBit(b, f, v) == SetField(b, f, IF v THEN 1 ELSE 0)

(***************************************************************************)
(* The register field declarations of class MSA3XX (the stand-alone MSA301 *)
(* declares the same ones with a leading underscore)                       *)
(***************************************************************************)
_disable_x == [addr |-> _REG_ODR, lo |-> 7, width |-> 1]
_disable_y == [addr |-> _REG_ODR, lo |-> 6, width |-> 1]
_disable_z == [addr |-> _REG_ODR, lo |-> 5, width |-> 1]

_single_tap_int_en == [addr |-> _REG_INTSET0, lo |-> 5, width |-> 1]
_double_tap_int_en == [addr |-> _REG_INTSET0, lo |-> 4, width |-> 1]

_tap_quiet == [addr |-> _REG_TAPDUR, lo |-> 7, width |-> 1]
_tap_shock == [addr |-> _REG_TAPDUR, lo |-> 6, width |-> 1]
_tap_duration == [addr |-> _REG_TAPDUR, lo |-> 0, width |-> 3]
_tap_threshold == [addr |-> _REG_TAPTH, lo |-> 0, width |-> 5]

power_mode == [addr |-> _REG_POWERMODE, lo |-> 6, width |-> 2]
bandwidth == [addr |-> _REG_POWERMODE, lo |-> 1, width |-> 4]
data_rate == [addr |-> _REG_ODR, lo |-> 0, width |-> 4]
\* range declared one bit too wide, reaching into resolution
rangeTooWide == [addr |-> _REG_RESRANGE, lo |-> 0, width |-> 3]
range == [addr |-> _REG_RESRANGE, lo |-> 0, width |-> 2]
resolution == [addr |-> _REG_RESRANGE, lo |-> 2, width |-> 2]

(***************************************************************************)
(* Construction                                                            *)
(***************************************************************************)
Drivers3xx == {"MSA301", "MSA311"}
Drivers == Drivers3xx \cup {"legacy_MSA301"}

\* MSA3XX.__init__: the reset configuration
MSA3XX_init(b) ==
    LET b1 == SetBit(b, _disable_x, FALSE)
        b2 == SetBit(b1, _disable_y, FALSE)
        b3 == SetBit(b2, _disable_z, FALSE)
        b4 == SetField(b3, power_mode, Mode_NORMAL)
        b5 == SetField(b4, data_rate, DataRate_RATE_500_HZ)
        b6 == SetField(b5, bandwidth, BandWidth_WIDTH_250_HZ)
        b7 == SetField(b6, range, Range_RANGE_4_G)
        b8 == SetField(b7, resolution, Resolution_RESOLUTION_14_BIT)
    IN  b8

\* adafruit_msa301.MSA301.enable_all_axes: assigns three local names and
\* touches no descriptor, so no bus access happens
enable_all_axes(b) == b

\* adafruit_msa301.MSA301.__init__ after the identity check
Legacy_init(b) ==
    LET b1 == enable_all_axes(b)
        b2 == SetField(b1, power_mode, 0)
        b3 == SetField(b2, data_rate, 9)
        b4 == SetField(b3, bandwidth, 9)
        b5 == SetField(b4, range, 1)
    IN  SetField(b5, resolution, 0)

\* a mis-ordered constructor: configuration first, identity check after
ConstructOfEager(d, r) ==
    LET b0 == IF d \in Drivers3xx THEN MSA3XX_init(Bus(r)) ELSE Legacy_init(Bus(r))
    IN  [bus |-> BusRead(b0), raised |-> r[_REG_PARTID] # PART_ID_EXPECTED]

\* MSA301.__init__ / MSA311.__init__ / adafruit_msa301.MSA301.__init__:
\* read _part_id, raise AttributeError unless it is 0x13, then configure
ConstructOf(d, r) ==
    LET b0 == BusRead(Bus(r))
    IN  IF r[_REG_PARTID] # PART_ID_EXPECTED
        THEN [bus |-> b0, raised |-> TRUE]
        ELSE [bus |-> IF d \in Drivers3xx THEN MSA3XX_init(b0) ELSE Legacy_init(b0),
              raised |-> FALSE]

Idle == [pc |-> "idle"]

Construct(d) ==
    /\ acc.pc = "idle"
    /\ \E c \in {ConstructOf(d, reg)} :
           /\ reg' = c.bus.reg
           /\ phase' = IF c.raised THEN "Failed" ELSE "Ready"
           /\ last' = [op |-> "construct", raised |-> c.raised,
                       nr |-> c.bus.nr, nw |-> c.bus.nw]
    /\ driver' = d
    /\ tap_count' = 0
    /\ tapConfigured' = FALSE
    /\ UNCHANGED <<out, acc>>

(***************************************************************************)
(* The settings attributes (descriptor writes by a caller)                 *)
(***************************************************************************)
SetAttr(name, f, v) ==
    /\ phase = "Ready"
    /\ \E b \in {SetField(Bus(reg), f, v)} :
           /\ reg' = b.reg
           /\ last' = [op |-> "set", field |-> name, val |-> v,
                       nr |-> b.nr, nw |-> b.nw]
    /\ acc' = IF acc.pc = "mid" /\ name = "range"
              THEN [acc EXCEPT !.wrote = TRUE] ELSE acc
    /\ UNCHANGED <<driver, phase, out, tap_count, tapConfigured>>

SetPowerMode == \E v \in Mode : SetAttr("power_mode", power_mode, v)
SetDataRate == \E v \in DataRate : SetAttr("data_rate", data_rate, v)
SetBandwidth == \E v \in BandWidth : SetAttr("bandwidth", bandwidth, v)
SetRange == \E v \in Range : SetAttr("range", range, v)
SetResolution == \E v \in Resolution : SetAttr("resolution", resolution, v)

(***************************************************************************)
(* acceleration                                                            *)
(***************************************************************************)
\* the table read in the other direction: code 0 as the coarsest range
ScaleOfInverted(current_range) ==
    LET s0 == 1
        s1 == IF current_range = 3 THEN 4096 ELSE s0
        s2 == IF current_range = 2 THEN 2048 ELSE s1
        s3 == IF current_range = 1 THEN 1024 ELSE s2
    IN  IF current_range = 0 THEN 512 ELSE s3

\* the chain of four ifs over current_range, starting from scale = 1.0
ScaleOf(current_range) ==
    LET s0 == 1
        s1 == IF current_range = 3 THEN 512 ELSE s0
        s2 == IF current_range = 2 THEN 1024 ELSE s1
        s3 == IF current_range = 1 THEN 2048 ELSE s2
    IN  IF current_range = 0 THEN 4096 ELSE s3

\* struct format "H": the same two bytes taken as unsigned
Unsigned16(lo, hi) == lo + 256 * hi

\* struct format "h": a little-endian two's-complement 16-bit value
Signed16(lo, hi) ==
    LET u == lo + 256 * hi IN IF u >= 32768 THEN u - 65536 ELSE u

\* Struct(_REG_OUT_X_L, "<hhh") over the six bytes read in one burst
Unpack_hhh(o) == <<Signed16(o[1], o[2]), Signed16(o[3], o[4]), Signed16(o[5], o[6])>>

\* i >> 2 on a Python int: the floor of i / 4
Asr2(i) == (i - (i % 4)) \div 4

\* one axis: MSA3XX returns ((i >> 2) / scale) * _STANDARD_GRAVITY, the
\* stand-alone MSA301 returns (i >> 2) / scale.  A reading is the exact
\* fraction <<numerator, denominator>>.
Reading(d, count, scale) ==
    IF d \in Drivers3xx
    THEN <<count * _STANDARD_GRAVITY_MILLI, scale * 1000>>
    ELSE <<count, scale>>

\* what acceleration returns from the range code and the raw bytes it read
AccResult(d, current_range, raw, sampleRange, wrote) ==
    LET signed == Unpack_hhh(raw)
        counts == [i \in 1..3 |-> Asr2(signed[i])]
        scale == ScaleOf(current_range)
    IN  [op |-> "acceleration", range |-> current_range, raw |-> raw,
         signed |-> signed, counts |-> counts, scale |-> scale,
         ret |-> [i \in 1..3 |-> Reading(d, counts[i], scale)],
         sampleRange |-> sampleRange, wrote |-> wrote]

\* a first step that trusts the range written at construction instead of
\* reading the register
AccFirstCached(d, r, o) ==
    IF d \in Drivers3xx
    THEN [pc |-> "mid", range |-> Range_RANGE_4_G, wrote |-> FALSE]
    ELSE [pc |-> "mid", raw |-> o, sampleRange |-> Range_RANGE_4_G,
          wrote |-> FALSE]

\* the first bus transaction: MSA3XX reads self.range, the stand-alone
\* MSA301 reads _xyz_raw.  sampleRange notes the range the device was
\* configured for when the burst read took place.
AccFirst(d, r, o) ==
    IF d \in Drivers3xx
    THEN [pc |-> "mid", range |-> GetField(r, range), wrote |-> FALSE]
    ELSE [pc |-> "mid", raw |-> o, sampleRange |-> GetField(r, range),
          wrote |-> FALSE]

\* the second bus transaction and the arithmetic after it
AccSecond(d, a, r, o) ==
    IF d \in Drivers3xx
    THEN AccResult(d, a.range, o, GetField(r, range), a.wrote)
    ELSE AccResult(d, GetField(r, range), a.raw, a.sampleRange, a.wrote)

\* a single-threaded caller: both transactions, nothing in between
Acceleration ==
    /\ phase = "Ready"
    /\ acc.pc = "idle"
    /\ last' = AccSecond(driver, AccFirst(driver, reg, out), reg, out)
    /\ UNCHANGED <<driver, phase, reg, out, tap_count, tapConfigured, acc>>

\* the same call seen by a second caller on the bus: it can act in between
AccelBegin ==
    /\ phase = "Ready"
    /\ acc.pc = "idle"
    /\ acc' = AccFirst(driver, reg, out)
    /\ last' = [op |-> "acceleration_begin"]
    /\ UNCHANGED <<driver, phase, reg, out, tap_count, tapConfigured>>

AccelEnd ==
    /\ acc.pc = "mid"
    /\ last' = AccSecond(driver, acc, reg, out)
    /\ acc' = Idle
    /\ UNCHANGED <<driver, phase, reg, out, tap_count, tapConfigured>>

(***************************************************************************)
(* Tap detection                                                           *)
(***************************************************************************)
\* enable_tap_detection with the negation of long_initial_window dropped
EnableOfNoNegation(b, tc, threshold, long_initial_window, long_quiet_window, double_tap_window) ==
    LET b1 == SetBit(b, _tap_shock, long_initial_window)
        b2 == SetBit(b1, _tap_quiet, long_quiet_window)
        b3 == SetField(b2, _tap_threshold, threshold)
    IN  IF double_tap_window > 7 \/ double_tap_window < 0
        THEN [bus |-> b3, tap_count |-> tc, raised |-> TRUE]
        ELSE IF tc = 1
        THEN [bus |-> SetBit(b3, _single_tap_int_en, TRUE),
              tap_count |-> tc, raised |-> FALSE]
        ELSE IF tc = 2
        THEN [bus |-> SetBit(SetField(b3, _tap_duration, double_tap_window),
                             _double_tap_int_en, TRUE),
              tap_count |-> tc, raised |-> FALSE]
        ELSE [bus |-> b3, tap_count |-> tc, raised |-> TRUE]

\* enable_tap_detection: three descriptor writes and the local store come
\* first, the two argument checks after them
EnableOf(b, tc, threshold, long_initial_window, long_quiet_window, double_tap_window) ==
    LET b1 == SetBit(b, _tap_shock, ~long_initial_window)
        b2 == SetBit(b1, _tap_quiet, long_quiet_window)
        b3 == SetField(b2, _tap_threshold, threshold)
    IN  IF double_tap_window > 7 \/ double_tap_window < 0
        THEN [bus |-> b3, tap_count |-> tc, raised |-> TRUE]
        ELSE IF tc = 1
        THEN [bus |-> SetBit(b3, _single_tap_int_en, TRUE),
              tap_count |-> tc, raised |-> FALSE]
        ELSE IF tc = 2
        THEN [bus |-> SetBit(SetField(b3, _tap_duration, double_tap_window),
                             _double_tap_int_en, TRUE),
              tap_count |-> tc, raised |-> FALSE]
        ELSE [bus |-> b3, tap_count |-> tc, raised |-> TRUE]

EnableTapDetection(tc, th, liw, lqw, dtw) ==
    /\ phase = "Ready"
    /\ acc.pc = "idle"
    /\ \E e \in {EnableOf(Bus(reg), tc, th, liw, lqw, dtw)} :
           /\ reg' = e.bus.reg
           /\ tap_count' = e.tap_count
           /\ last' = [op |-> "enable_tap_detection", raised |-> e.raised,
                       tap_count |-> tc, threshold |-> th,
                       long_initial_window |-> liw, long_quiet_window |-> lqw,
                       double_tap_window |-> dtw]
    /\ tapConfigured' = TRUE
    /\ UNCHANGED <<driver, phase, out, acc>>

\* tapped with the two status bits exchanged
TappedOfSwapped(tc, motion_int_status) ==
    IF tc = 0 THEN FALSE
    ELSE IF motion_int_status = 0 THEN FALSE
    ELSE IF tc = 1 /\ BitAnd(motion_int_status, 16) # 0 THEN TRUE
    ELSE IF tc = 2 /\ BitAnd(motion_int_status, 32) # 0 THEN TRUE
    ELSE FALSE

\* tapped: the value returned for a stored tap_count and a status byte
TappedOf(tc, motion_int_status) ==
    IF tc = 0 THEN FALSE
    ELSE IF motion_int_status = 0 THEN FALSE
    ELSE IF tc = 1 /\ BitAnd(motion_int_status, 32) # 0 THEN TRUE
    ELSE IF tc = 2 /\ BitAnd(motion_int_status, 16) # 0 THEN TRUE
    ELSE FALSE

Tapped ==
    /\ phase = "Ready"
    /\ acc.pc = "idle"
    /\ last' = [op |-> "tapped", ret |-> TappedOf(tap_count, reg[_REG_MOTIONINT]),
                status |-> reg[_REG_MOTIONINT], configured |-> tapConfigured]
    /\ UNCHANGED <<driver, phase, reg, out, tap_count, tapConfigured, acc>>

(***************************************************************************)
(* The device itself: new samples and interrupt status arrive on their own *)
(***************************************************************************)
\* raw bursts, OUT_X_L first: 0x1FFC 0xFFFC 0x8000 / 0xFFFC 0x7FFF 0x0007 / ...
SamplePatterns == << <<252, 31, 252, 255, 0, 128>>,
                     <<252, 255, 255, 127, 7, 0>>,
                     <<0, 128, 7, 0, 252, 31>>,
                     <<1, 0, 255, 255, 0, 64>> >>
NSamples == 3
RawSamples == {SamplePatterns[i] : i \in 1..NSamples}

HwSample ==
    /\ \E o \in RawSamples : out' = o
    /\ last' = [op |-> "hw"]
    /\ UNCHANGED <<driver, phase, reg, tap_count, tapConfigured, acc>>

\* MOTIONINT: nothing, double tap (bit 4), single tap (bit 5), another
\* interrupt (bit 2), both taps
StatusBytes == {0, 16, 32, 4, 48}

HwMotionInt ==
    /\ \E st \in StatusBytes : reg' = [reg EXCEPT ![_REG_MOTIONINT] = st]
    /\ last' = [op |-> "hw"]
    /\ UNCHANGED <<driver, phase, out, tap_count, tapConfigured, acc>>

(***************************************************************************)
(* Initial states: a powered device holding prior register content, and no *)
(* driver object yet.                                                      *)
(***************************************************************************)
PriorPatterns == <<0, 255, 165, 90, 60>>
NPrior == 2
PriorBytes == {PriorPatterns[i] : i \in 1..NPrior}
PartIds == {19, 0}
RawZero == <<0, 0, 0, 0, 0, 0>>

InitWith(cfgPrior, tapPrior) ==
    /\ driver = "none"
    /\ phase = "Unverified"
    /\ \E id \in PartIds, c \in cfgPrior, t \in tapPrior :
          reg = [a \in Addrs |->
                   CASE a = _REG_PARTID -> id
                     [] a = _REG_MOTIONINT -> 0
                     [] a \in {_REG_RESRANGE, _REG_ODR, _REG_POWERMODE} -> c
                     [] OTHER -> t]
    /\ out = RawZero
    /\ tap_count = 0
    /\ tapConfigured = FALSE
    /\ last = [op |-> "none"]
    /\ acc = Idle

(***************************************************************************)
(* Specifications                                                          *)
(***************************************************************************)
\* the settings attributes of the MSA3XX classes
InitConfig == InitWith(PriorBytes, {0})

NextConfig ==
    \/ \E d \in Drivers3xx : Construct(d)
    \/ SetPowerMode
    \/ SetDataRate
    \/ SetBandwidth
    \/ SetRange
    \/ SetResolution

SpecConfig == InitConfig /\ [][NextConfig]_vars

\* construction and sampling, all three classes, one caller
InitDevice == InitWith(PriorBytes, {0})

NextDevice ==
    \/ \E d \in Drivers : Construct(d)
    \/ SetRange
    \/ HwSample
    \/ Acceleration

SpecDevice == InitDevice /\ [][NextDevice]_vars

\* tap detection of the MSA3XX classes
\* tap_count arguments: the two valid ones and one on either side
TapCounts == 0..3
Thresholds == {0, 25}
Windows == {-1, 0, 5, 7, 8}

InitTap == InitWith({0}, PriorBytes)

NextTap ==
    \/ \E d \in Drivers3xx : Construct(d)
    \/ \E tc \in TapCounts, th \in Thresholds, liw \in BOOLEAN, lqw \in BOOLEAN,
          dtw \in Windows : EnableTapDetection(tc, th, liw, lqw, dtw)
    \/ Tapped
    \/ HwMotionInt

SpecTap == InitTap /\ [][NextTap]_vars

\* acceleration with a second caller writing range on the same bus
InitRace == InitWith(PriorBytes, {0})

NextRace ==
    \/ \E d \in Drivers : Construct(d)
    \/ AccelBegin
    \/ AccelEnd
    \/ SetRange
    \/ HwSample

SpecRace == InitRace /\ [][NextRace]_vars

(***************************************************************************)
(* Properties                                                              *)
(***************************************************************************)
Bit(byte, n) == (byte \div Pow2(n)) % 2

\* C1: a construction that reads an identity byte other than 0x13 raises,
\* issues exactly one bus read and no bus write, and leaves every register
\* as it was.
C1_IdentityMismatchWritesNothing ==
    [][(last'.op = "construct" /\ reg[_REG_PARTID] # 19)
         => /\ last'.raised
            /\ phase' = "Failed"
            /\ last'.nr = 1
            /\ last'.nw = 0
            /\ reg' = reg]_vars

C1_Witness ==
    /\ last.op = "construct"
    /\ last.raised
    /\ phase = "Failed"
    /\ reg[_REG_PARTID] = 0
    /\ reg[_REG_ODR] = 255

\* C2: every construction that passes the identity check, by any of the
\* three classes, ends with power_mode 0, data_rate 9, bandwidth 9, range 1,
\* resolution 0 and ODR bits 7, 6 and 5 clear.
C2_ConstructionResetsConfiguration ==
    (last.op = "construct" /\ ~last.raised)
      => /\ reg[_REG_POWERMODE] \div 64 = 0
         /\ reg[_REG_ODR] % 16 = 9
         /\ (reg[_REG_POWERMODE] \div 2) % 16 = 9
         /\ reg[_REG_RESRANGE] % 4 = 1
         /\ (reg[_REG_RESRANGE] \div 4) % 4 = 0
         /\ reg[_REG_ODR] \div 32 = 0

\* C3: an enable_tap_detection call with double_tap_window outside 0..7
\* raises and leaves the quiet and shock bits, the duration field, the
\* threshold field and the two tap enable bits as they were.
C3_BadWindowLeavesTapRegisters ==
    [][(/\ last'.op = "enable_tap_detection"
        /\ (last'.double_tap_window > 7 \/ last'.double_tap_window < 0))
         => /\ last'.raised
            /\ Bit(reg'[_REG_TAPDUR], 7) = Bit(reg[_REG_TAPDUR], 7)
            /\ Bit(reg'[_REG_TAPDUR], 6) = Bit(reg[_REG_TAPDUR], 6)
            /\ reg'[_REG_TAPDUR] % 8 = reg[_REG_TAPDUR] % 8
            /\ reg'[_REG_TAPTH] % 32 = reg[_REG_TAPTH] % 32
            /\ Bit(reg'[_REG_INTSET0], 5) = Bit(reg[_REG_INTSET0], 5)
            /\ Bit(reg'[_REG_INTSET0], 4) = Bit(reg[_REG_INTSET0], 4)]_vars

\* C4: tapped returns false on an object whose enable_tap_detection was
\* never called, whatever the status byte; and it returns true exactly when
\* the stored tap_count is 1 and status bit 5 is set, or the stored
\* tap_count is 2 and status bit 4 is set.
C4_TappedVerdict ==
    last.op = "tapped"
      => /\ ~last.configured => last.ret = FALSE
         /\ last.ret = TRUE <=>
              \/ tap_count = 1 /\ Bit(last.status, 5) = 1
              \/ tap_count = 2 /\ Bit(last.status, 4) = 1

C4_Witness ==
    /\ last.op = "tapped"
    /\ last.ret = TRUE
    /\ tap_count = 2
    /\ last.status = 48

\* C5: writing a valid enum value to power_mode, data_rate, bandwidth, range
\* or resolution makes the field read back that value and changes no bit
\* outside the field's span, in its own register or in any other.
C5_FieldWriteRoundTripAndFrame ==
    [][last'.op = "set"
         => /\ \A a \in Addrs :
                 a \notin {_REG_RESRANGE, _REG_ODR, _REG_POWERMODE} => reg'[a] = reg[a]
            /\ last'.field = "range"
                 => /\ GetField(reg', range) = last'.val
                    /\ reg'[_REG_RESRANGE] % 4 = last'.val
                    /\ reg'[_REG_RESRANGE] \div 4 = reg[_REG_RESRANGE] \div 4
                    /\ reg'[_REG_ODR] = reg[_REG_ODR]
                    /\ reg'[_REG_POWERMODE] = reg[_REG_POWERMODE]
            /\ last'.field = "resolution"
                 => /\ GetField(reg', resolution) = last'.val
                    /\ (reg'[_REG_RESRANGE] \div 4) % 4 = last'.val
                    /\ reg'[_REG_RESRANGE] % 4 = reg[_REG_RESRANGE] % 4
                    /\ reg'[_REG_RESRANGE] \div 16 = reg[_REG_RESRANGE] \div 16
                    /\ reg'[_REG_ODR] = reg[_REG_ODR]
                    /\ reg'[_REG_POWERMODE] = reg[_REG_POWERMODE]
            /\ last'.field = "data_rate"
                 => /\ GetField(reg', data_rate) = last'.val
                    /\ reg'[_REG_ODR] % 16 = last'.val
                    /\ reg'[_REG_ODR] \div 16 = reg[_REG_ODR] \div 16
                    /\ reg'[_REG_RESRANGE] = reg[_REG_RESRANGE]
                    /\ reg'[_REG_POWERMODE] = reg[_REG_POWERMODE]
            /\ last'.field = "bandwidth"
                 => /\ GetField(reg', bandwidth) = last'.val
                    /\ (reg'[_REG_POWERMODE] \div 2) % 16 = last'.val
                    /\ reg'[_REG_POWERMODE] % 2 = reg[_REG_POWERMODE] % 2
                    /\ reg'[_REG_POWERMODE] \div 32 = reg[_REG_POWERMODE] \div 32
                    /\ reg'[_REG_RESRANGE] = reg[_REG_RESRANGE]
                    /\ reg'[_REG_ODR] = reg[_REG_ODR]
            /\ last'.field = "power_mode"
                 => /\ GetField(reg', power_mode) = last'.val
                    /\ reg'[_REG_POWERMODE] \div 64 = last'.val
                    /\ reg'[_REG_POWERMODE] % 64 = reg[_REG_POWERMODE] % 64
                    /\ reg'[_REG_RESRANGE] = reg[_REG_RESRANGE]
                    /\ reg'[_REG_ODR] = reg[_REG_ODR]]_vars

C5_Witness ==
    /\ last.op = "set"
    /\ last.field = "range"
    /\ last.val = 2
    /\ reg[_REG_RESRANGE] = 254

\* C6: while a driver object exists, the stored tap_count is 0, 1 or 2 and
\* the tap-duration field holds a value in 0..7.
C6_TapCountAndDurationInRange ==
    phase = "Ready"
      => /\ tap_count \in {0, 1, 2}
         /\ reg[_REG_TAPDUR] % 8 \in 0..7

\* C7: the range code acceleration reads is one of 0..3 and is the code the
\* device holds; the divisor it uses is 4096, 2048, 1024, 512 for codes 0,
\* 1, 2, 3 and never the initial 1.0; every axis is divided by it.
C7_ScaleTable ==
    last.op = "acceleration"
      => /\ last.range \in 0..3
         /\ last.range = reg[_REG_RESRANGE] % 4
         /\ last.range = 0 => last.scale = 4096
         /\ last.range = 1 => last.scale = 2048
         /\ last.range = 2 => last.scale = 1024
         /\ last.range = 3 => last.scale = 512
         /\ last.scale # 1
         /\ \A i \in 1..3 :
              last.ret[i][2] = IF driver \in Drivers3xx
                               THEN last.scale * 1000 ELSE last.scale

C7_Witness ==
    /\ last.op = "acceleration"
    /\ last.range = 3
    /\ last.scale = 512
    /\ last.ret[1][2] = 512000

\* C8 as stated: the X output bytes FC 1F (0x1FFC) decode to -4, shift to
\* -1, and at range code 0 give (-1) * 9.806 / 4096.
C8_Original_0x1FFC_IsMinus4 ==
    (last.op = "acceleration" /\ driver \in Drivers3xx
       /\ last.raw[1] = 252 /\ last.raw[2] = 31)
      => /\ last.signed[1] = -4
         /\ last.counts[1] = -1
         /\ last.range = 0 => last.ret[1] = <<-9806, 4096000>>

\* C8 amended: 0x1FFC decodes to 8188 and shifts to 2047, so at range code 0
\* the reading is 2047 * 9.806 / 4096; the value that decodes to -4 is
\* 0xFFFC, which shifts to -1 and reads (-1) * 9.806 / 4096 at range code 0.
C8_Decode ==
    (last.op = "acceleration" /\ driver \in Drivers3xx)
      => /\ (last.raw[1] = 252 /\ last.raw[2] = 31)
              => /\ last.signed[1] = 8188
                 /\ last.counts[1] = 2047
                 /\ last.range = 0 => last.ret[1] = <<2047 * 9806, 4096000>>
         /\ (last.raw[1] = 252 /\ last.raw[2] = 255)
              => /\ last.signed[1] = -4
                 /\ last.counts[1] = -1
                 /\ last.range = 0 => last.ret[1] = <<-9806, 4096000>>

C8_Witness ==
    /\ last.op = "acceleration"
    /\ driver \in Drivers3xx
    /\ last.raw[1] = 252 /\ last.raw[2] = 255
    /\ last.range = 0
    /\ last.ret[1] = <<-9806, 4096000>>

\* C9: a successful enable_tap_detection leaves shock = not
\* long_initial_window, quiet = long_quiet_window, the threshold in TAPTH
\* and tap_count stored; with tap_count 1 it sets INTSET0 bit 5 and leaves
\* the duration field and bit 4 alone; with tap_count 2 it writes
\* double_tap_window to the duration field, sets bit 4 and leaves bit 5
\* alone.  No step of the driver clears bit 5 or bit 4 once set.
C9_EnableTapDetectionEffect ==
    [][/\ (last'.op = "enable_tap_detection" /\ ~last'.raised)
            => /\ Bit(reg'[_REG_TAPDUR], 6) = IF last'.long_initial_window THEN 0 ELSE 1
               /\ Bit(reg'[_REG_TAPDUR], 7) = IF last'.long_quiet_window THEN 1 ELSE 0
               /\ reg'[_REG_TAPTH] % 32 = last'.threshold
               /\ tap_count' = last'.tap_count
               /\ last'.tap_count \in {1, 2}
               /\ last'.tap_count = 1
                    => /\ Bit(reg'[_REG_INTSET0], 5) = 1
                       /\ reg'[_REG_TAPDUR] % 8 = reg[_REG_TAPDUR] % 8
                       /\ Bit(reg'[_REG_INTSET0], 4) = Bit(reg[_REG_INTSET0], 4)
               /\ last'.tap_count = 2
                    => /\ reg'[_REG_TAPDUR] % 8 = last'.double_tap_window
                       /\ Bit(reg'[_REG_INTSET0], 4) = 1
                       /\ Bit(reg'[_REG_INTSET0], 5) = Bit(reg[_REG_INTSET0], 5)
       /\ Bit(reg[_REG_INTSET0], 5) = 1 => Bit(reg'[_REG_INTSET0], 5) = 1
       /\ Bit(reg[_REG_INTSET0], 4) = 1 => Bit(reg'[_REG_INTSET0], 4) = 1]_vars

C9_Witness ==
    /\ last.op = "enable_tap_detection"
    /\ ~last.raised
    /\ last.tap_count = 2
    /\ last.double_tap_window = 5
    /\ ~last.long_initial_window
    /\ reg[_REG_TAPDUR] = 69
    /\ reg[_REG_TAPTH] = 25
    /\ reg[_REG_INTSET0] = 48

\* C10: an acceleration result whose divisor is not the one of the range the
\* device was configured for when the burst was read arises only when a range
\* write landed between the call's two bus transactions; and that state is
\* reachable (C10_Witness).
C10_MismatchOnlyByInterleavedWrite ==
    last.op = "acceleration"
      => \/ last.wrote
         \/ /\ last.sampleRange = 0 => last.scale = 4096
            /\ last.sampleRange = 1 => last.scale = 2048
            /\ last.sampleRange = 2 => last.scale = 1024
            /\ last.sampleRange = 3 => last.scale = 512

C10_Witness ==
    /\ last.op = "acceleration"
    /\ driver \in Drivers3xx
    /\ last.wrote
    /\ last.range = 1
    /\ last.scale = 2048
    /\ last.sampleRange = 0
    /\ last.raw = <<252, 31, 252, 255, 0, 128>>

====
